---- MODULE Spec2Model ----
(***************************************************************************)
(* DocGen (src/source/docgen.js): the document assembly and output         *)
(* pipeline of one run(), as a state machine.                              *)
(*                                                                         *)
(* Strings are sequences of tokens: a token is a run of characters without *)
(* a dot, or the dot itself, so <<"intro", ".", "md">> is "intro.md".      *)
(* JSON objects are functions from field names; JSON arrays are sequences. *)
(* mainProcess.exit(1) ends the run: pc = "exited" and no action is        *)
(* enabled afterwards.                                                     *)
(***************************************************************************)
EXTENDS Integers, Sequences, FiniteSets, TLC

VARIABLES
  options,      \* options, set by setOptions before run()
  pc,           \* the stage the run is waiting in
  exitCode,     \* -1 while running, 1 after mainProcess.exit(1), 0 after Done!
  reads,        \* the readFile promises of the current stage, in issue order
  templates,    \* templates: key -> parsed template
  meta,         \* meta: key -> validated JSON document
  pages,        \* pages: source identifier -> rendered / composed page
  sortedPages,  \* sortedPages: column -> sections
  writes,       \* every writeFile call of writePages, in issue order
  promises,     \* writePages' promises object: key -> index into writes
  disk,         \* files under the output root: path -> content
  copies,       \* the copyDirSync calls made so far, with their outcome
  exec,         \* the wkhtmltopdf -V call: "none", "running", "ok", "error"
  child,        \* the wkhtmltopdf subprocess
  pdfArgs,      \* the page list of getPdfArguments when the child was spawned
  cleanUps,     \* how many times cleanUp ran
  failedOps,    \* the operations that failed in this run
  console,      \* what the PDF stage and cleanUp wrote with console.log
  twin          \* the same run with options.verbose negated: in step or not

vars == <<options, pc, exitCode, reads, templates, meta, pages, sortedPages,
          writes, promises, disk, copies, exec, child, pdfArgs, cleanUps,
          failedOps, console, twin>>

\* ---------------------------------------------------------------- bounds
\* the longest contents.json list fed to the run
MaxSections == 2
\* the most pages a contents.json list declares in all
MaxPages == 1
\* the longest heading label, in tokens
MaxLabel == 3

\* ---------------------------------------------------------------- helpers
Min(a, b) == IF a < b THEN a ELSE b

RECURSIVE Flatten(_)
Flatten(ss) == IF ss = <<>> THEN <<>> ELSE Head(ss) \o Flatten(Tail(ss))

Range(s) == {s[i] : i \in 1..Len(s)}

SeqsUpTo(S, n) == UNION {[1..k -> S] : k \in 0..n}

\* String.prototype.lastIndexOf, 0-based, -1 when absent
lastIndexOf(s, c) ==
  IF \E i \in 1..Len(s) : s[i] = c
  THEN (CHOOSE i \in 1..Len(s) : s[i] = c /\ \A j \in (i+1)..Len(s) : s[j] # c) - 1
  ELSE -1

\* String.prototype.substr(0, length): a negative length selects nothing
substr0(s, length) ==
  IF length <= 0 THEN <<>> ELSE SubSeq(s, 1, Min(length, Len(s)))

\* String.prototype.toLowerCase, token by token, on the tokens of the samples
toLowerCase(s) ==
  CASE s = "Widget" -> "widget"
    [] s = "A" -> "a"
    [] OTHER -> s

\* the tokens the regular expression class \s matches
Whitespace == {" ", "\t"}

\* ---------------------------------------------------------------- inputs
OutputDir == "out/"
InputDir == "in/"

\* the source identifiers the generated contents.json samples declare
Sources == { <<"intro", ".", "md">>, <<"guide", ".", "md">> }
\* column values of the samples; 5 is outside the schema's range
InputColumns == {1, 2, 5}

ReleaseNotes == <<"release-notes", ".", "txt">>

Link(n, u) == [name |-> n, url |-> u]

FullParameters ==
  [title |-> "Widget Guide", name |-> "Widget", version |-> "1.0",
   date |-> "01/01/2020", organization |-> Link("Org", ""),
   author |-> Link("Ann", "http://ann"), owner |-> Link("Bob", ""),
   contributors |-> <<Link("Cy", ""), Link("Di", "http://di")>>,
   website |-> Link("Site", "http://site"), backlink |-> Link("Back", ""),
   module |-> "m", id |-> "i", summary |-> "s", marking |-> "k",
   legalese |-> "l"]

Without(doc, f) == [k \in DOMAIN doc \ {f} |-> doc[k]]

\* parameters.json samples: complete, without the optional backlink, without a
\* required field, with an author that lacks its url
ParameterDocs ==
  { FullParameters,
    Without(FullParameters, "backlink"),
    Without(FullParameters, "title"),
    [FullParameters EXCEPT !.author = [name |-> "Ann"]] }

Page(s) == [title |-> s[1], source |-> s]

SectionInputs ==
  { [heading |-> "Guide", column |-> c, pages |-> ps] :
      c \in InputColumns, ps \in SeqsUpTo({Page(s) : s \in Sources}, MaxPages) }

\* every page of a contents list, in declaration order
PagesOf(contents) == Flatten([i \in 1..Len(contents) |-> contents[i].pages])

Section(h, c, ps) == [heading |-> h, column |-> c, pages |-> ps]

IntroMd == Page(<<"intro", ".", "md">>)

\* a source identifier with a dot inside its name
DottedMd == <<"v1", ".", "0", ".", "md">>

\* a page given as raw HTML
RawHtml == [title |-> "raw", source |-> <<"raw", ".", "htm">>, html |-> TRUE]

\* contents.json samples: every list of up to MaxSections sections declaring up
\* to MaxPages pages in all; and these: a section without its heading, a
\* section the user called Extra, one page declared twice, two sources that
\* differ only in their extension, two sections declared in descending column
\* order, an empty section followed by a page, a raw HTML page, a source with
\* two dots followed by a source with none
ContentsDocs ==
  { c \in SeqsUpTo(SectionInputs, MaxSections) : Len(PagesOf(c)) <= MaxPages }
    \cup { << [column |-> 1, pages |-> <<>>] >>,
           << Section("Extra", 2, <<IntroMd>>) >>,
           << Section("Guide", 1, <<IntroMd, IntroMd>>) >>,
           << Section("Guide", 1, <<IntroMd, Page(<<"intro", ".", "txt">>)>>) >>,
           << Section("Guide", 2, <<IntroMd>>),
              Section("Guide", 1, <<Page(<<"guide", ".", "md">>)>>) >>,
           << Section("Guide", 1, <<>>), Section("Guide", 1, <<IntroMd>>) >>,
           << Section("Guide", 1, <<RawHtml>>) >>,
           << Section("Guide", 1, <<Page(DottedMd), Page(<<"readme">>)>>) >> }

\* the text of a JSON file: either it parses to json or it does not parse
Malformed == [wellFormed |-> FALSE, json |-> <<>>]
JsonFile(doc) == [wellFormed |-> TRUE, json |-> doc]

ParameterTexts == {Malformed} \cup {JsonFile(d) : d \in ParameterDocs}
ContentsTexts == {Malformed} \cup {JsonFile(d) : d \in ContentsDocs}

FileTexts(key) == IF key = "parameters" THEN ParameterTexts ELSE ContentsTexts

\* the text of a source file: known by its path and by the labels of the
\* headings it holds, each label a sequence of tokens
SourceText(path, labels) == [path |-> path, headings |-> labels]

\* the heading of the source files of the samples
SampleLabel == <<"A", " ", "\t", "b">>

\* the tokens of a heading label: a capital, a small letter, a space, a tab, a
\* hyphen; and the labels made of them
LabelTokens == {"A", "b", " ", "\t", "-"}
Labels == SeqsUpTo(LabelTokens, MaxLabel)

\* ---------------------------------------------------------------- schemas
LinkFields == {"name", "url"}

\* schemas.parameters: the required fields and the name/url objects
schemasParameters ==
  [required |-> {"title", "name", "version", "date", "organization", "author",
                 "owner", "contributors", "website", "module", "id",
                 "summary", "marking", "legalese"},
   objects |-> {"organization", "author", "owner", "website", "backlink"}]

\* schemas.contents with column allowed up to 5
schemasContentsFive ==
  [required |-> {"heading", "column", "pages"},
   minimum |-> 1, maximum |-> 5,
   pageRequired |-> {"title", "source"}]

\* schemas.contents: the required fields of a section and of a page, and the
\* range of column
schemasContents ==
  [required |-> {"heading", "column", "pages"},
   minimum |-> 1, maximum |-> 4,
   pageRequired |-> {"title", "source"}]

\* z-schema's validate(data, schemas.parameters)
ValidParameters(data) ==
  /\ schemasParameters.required \subseteq DOMAIN data
  /\ \A f \in schemasParameters.objects \cap DOMAIN data :
       LinkFields \subseteq DOMAIN data[f]
  /\ \A i \in 1..Len(data.contributors) :
       LinkFields \subseteq DOMAIN data.contributors[i]

\* z-schema's validate(data, schemas.contents)
ValidContents(data) ==
  \A i \in 1..Len(data) :
    /\ schemasContents.required \subseteq DOMAIN data[i]
    /\ data[i].column >= schemasContents.minimum
    /\ data[i].column <= schemasContents.maximum
    /\ \A j \in 1..Len(data[i].pages) :
         schemasContents.pageRequired \subseteq DOMAIN data[i].pages[j]

\* validateJSON with the validator's verdict ignored
validateJSONUnchecked(key, data) == TRUE

validateJSON(key, data) ==
  IF key = "parameters" THEN ValidParameters(data) ELSE ValidContents(data)

\* ---------------------------------------------------------------- sync helpers
\* what the three synchronous directory helpers do when the fs call threw
\* (error) or not: "exit" is mainProcess.exit(1), "return" a normal return
copyDirSync(opts, error) ==
  IF error /\ opts.verbose = TRUE THEN "exit" ELSE "return"

remakeDirSync(opts, error) ==
  IF error /\ opts.verbose = TRUE THEN "exit" ELSE "return"

removeDirSync(opts, error) ==
  IF error /\ opts.verbose = TRUE THEN "exit" ELSE "return"

\* the rejection handler every promise chain ends with: report, then exit(1)
catchHandler(opts) == "exit"

\* the run with the other verbosity
Twin(opts) == [opts EXCEPT !.verbose = ~opts.verbose]

\* whether the twin run stays in step when both runs handled the same outcome
InStep(mine, theirs) ==
  IF mine = theirs THEN twin ELSE "diverged"

\* ---------------------------------------------------------------- state
TemplateKeys == <<"main", "redirect", "webCover", "pdfCover", "pdfHeader", "pdfFooter">>

StaleFile == <<OutputDir, "stale", ".", "html">>

NoFiles == [p \in {} |-> 0]

Pending(rs) == {i \in 1..Len(rs) : rs[i].state = "pending"}

\* rsvp.hash(files) is fulfilled once every promise it holds is fulfilled
rsvpHash(rs) == \A i \in 1..Len(rs) : rs[i].state = "done"

\* rsvp.all fulfilled by the first promise that is fulfilled
rsvpAllFirst(rs) == \E i \in 1..Len(rs) : rs[i].state = "done"

\* rsvp.all(files.map(readFile)) is fulfilled once every promise is fulfilled
rsvpAll(rs) == \A i \in 1..Len(rs) : rs[i].state = "done"

\* a readFile call of the stage that issued it
ReadOf(stage, key, path) ==
  [stage |-> stage, key |-> key, path |-> path, state |-> "pending", data |-> <<>>]

\* the values options.pdf is given: the two booleans, and a string, as
\* setOptions takes whatever object it is handed
PdfValues == {"true", "false", "'yes'"}

\* if (v): every value but false is truthy here, the string included
truthy(v) == v # "false"

\* v === true: the boolean true and nothing else
strictlyTrue(v) == v = "true"

\* the JavaScript boolean of a truth value
boolean(b) == IF b THEN "true" ELSE "false"

\* the options of a run that sets none
Defaults ==
  [verbose |-> FALSE, pdf |-> "false", redirect |-> FALSE, mathKatex |-> FALSE,
   mathMathjax |-> FALSE, pageToc |-> FALSE]

\* the options of the runs: every mix of verbose and pdf
OptionSets ==
  {[Defaults EXCEPT !.verbose = v, !.pdf = boolean(p)] : v \in BOOLEAN, p \in BOOLEAN}

\* the options of the runs that ask for the redirect page: a verbose run with
\* PDF output and a quiet run without
RedirectSets ==
  {[Defaults EXCEPT !.redirect = TRUE, !.verbose = v, !.pdf = boolean(v)] :
     v \in BOOLEAN}

\* the options of the runs that change the markup of the pages: a math engine,
\* both of them (that run with PDF output), or the page contents
MarkupSets ==
  {[Defaults EXCEPT !.mathKatex = TRUE],
   [Defaults EXCEPT !.mathMathjax = TRUE],
   [Defaults EXCEPT !.mathKatex = TRUE, !.mathMathjax = TRUE, !.pdf = "true"],
   [Defaults EXCEPT !.pageToc = TRUE]}

\* the options of the runs that differ in the value of pdf alone
PdfValueSets == {[Defaults EXCEPT !.pdf = v] : v \in PdfValues}

\* the state the constructor leaves, whatever the options
Constructed ==
  /\ pc = "start"
  /\ exitCode = -1
  /\ reads = <<>>
  /\ templates = NoFiles
  /\ meta = NoFiles
  /\ pages = NoFiles
  /\ sortedPages = NoFiles
  /\ writes = <<>>
  /\ promises = NoFiles
  /\ disk = [p \in {StaleFile} |-> "stale"]
  /\ copies = <<>>
  /\ exec = "none"
  /\ child = "none"
  /\ pdfArgs = <<>>
  /\ cleanUps = 0
  /\ failedOps = {}
  /\ console = {}
  /\ twin = "lockstep"

Init == options \in OptionSets /\ Constructed

InitRedirect == options \in RedirectSets /\ Constructed

InitMarkup == options \in MarkupSets /\ Constructed

InitPdfValues == options \in PdfValueSets /\ Constructed

\* mainProcess.exit(1)
Exit ==
  /\ pc' = "exited"
  /\ exitCode' = 1

\* run(): remake the output directory, then loadTemplates() issues its reads
Run ==
  /\ pc = "start"
  /\ \E error \in BOOLEAN :
       /\ failedOps' = IF error THEN failedOps \cup {"remake"} ELSE failedOps
       /\ twin' = InStep(remakeDirSync(options, error), remakeDirSync(Twin(options), error))
       /\ disk' = IF error THEN disk ELSE NoFiles
       /\ IF remakeDirSync(options, error) = "exit"
          THEN Exit /\ UNCHANGED reads
          ELSE /\ pc' = "templates"
               /\ reads' = [i \in 1..Len(TemplateKeys) |->
                              ReadOf("templates", TemplateKeys[i], <<"templates/", TemplateKeys[i], ".", "html">>)]
               /\ UNCHANGED exitCode
  /\ UNCHANGED <<console, options, templates, meta, pages, sortedPages, writes,
                 promises, copies, exec, child, pdfArgs, cleanUps>>


\* ---------------------------------------------------------------- reading
\* the text readFile resolves with: what parameters.json and contents.json hold
\* is the run's input, any other file is known by its path
TextsAt(key, path) ==
  IF pc = "meta" THEN FileTexts(key)
  ELSE IF pc = "markdown" THEN {SourceText(path, <<SampleLabel>>)}
  ELSE {path}

\* readFile's callback without error: the promise resolves with the text
ReadFileOk ==
  /\ pc \in {"templates", "meta", "markdown"}
  /\ \E i \in Pending(reads) :
       \E text \in TextsAt(reads[i].key, reads[i].path) :
         reads' = [reads EXCEPT ![i].state = "done", ![i].data = text]
  /\ UNCHANGED <<console, options, pc, exitCode, templates, meta, pages, sortedPages,
                 writes, promises, disk, copies, exec, child, pdfArgs,
                 cleanUps, failedOps, twin>>

\* readFile's callback with an error: the promise rejects, rsvp.hash / rsvp.all
\* rejects at once and the stage's catch handler calls exit(1)
ReadFileError ==
  /\ pc \in {"templates", "meta", "markdown"}
  /\ \E i \in Pending(reads) :
       reads' = [reads EXCEPT ![i].state = "failed"]
  /\ failedOps' = failedOps \cup {"read"}
  /\ twin' = InStep(catchHandler(options), catchHandler(Twin(options)))
  /\ Exit
  /\ UNCHANGED <<console, options, templates, meta, pages, sortedPages, writes,
                 promises, disk, copies, exec, child, pdfArgs, cleanUps>>

\* what the read issued for key resolved with
TextOf(rs, key) == rs[CHOOSE i \in 1..Len(rs) : rs[i].key = key].data

\* cheerio.load(file): a parsed template, nothing injected yet
cheerioLoad(file) ==
  [kind |-> "dom", tree |-> file, file |-> file, toc |-> <<>>,
   pdfButton |-> FALSE, params |-> NoFiles, head |-> <<>>, link |-> <<>>,
   wrapper |-> "", content |-> <<>>, headings |-> <<>>, pageToc |-> <<>>,
   title |-> "", hiddenTitle |-> FALSE, tableClass |-> ""]

\* loadTemplates' then-handler: parse the six templates, then loadMeta() issues
\* its two reads
LoadTemplatesThen ==
  /\ pc = "templates"
  /\ rsvpHash(reads)
  /\ templates' = [k \in Range(TemplateKeys) |->
                     cheerioLoad(TextOf(reads, k))]
  /\ reads' = << ReadOf("meta", "parameters", <<InputDir, "parameters", ".", "json">>),
                 ReadOf("meta", "contents", <<InputDir, "contents", ".", "json">>) >>
  /\ pc' = "meta"
  /\ UNCHANGED <<console, options, exitCode, meta, pages, sortedPages, writes, promises,
                 disk, copies, exec, child, pdfArgs, cleanUps, failedOps, twin>>

\* one pass of loadMeta's loop body: JSON.parse, then validateJSON
Accepted(key, text) == text.wellFormed /\ validateJSON(key, text.json)

\* the release notes section loadMeta appends to the contents list
extra ==
  [heading |-> "Extra", column |-> 5,
   pages |-> << [title |-> "Release notes", source |-> ReleaseNotes] >>]

\* the string key 'ownership' loadMarkdown pushes after the pages: it has no
\* source and no html property
OwnershipKey == [string |-> "ownership"]

\* loadMarkdown's keys and files arrays, as the reads it issues
MarkdownReads(contents) ==
  LET ps == PagesOf(contents)
  IN  [i \in 1..Len(ps) |-> ReadOf("markdown", ps[i], <<InputDir>> \o ps[i].source)]
        \o << ReadOf("markdown", OwnershipKey, <<InputDir>> \o ReleaseNotes) >>

\* loadMeta's then-handler: parse and validate parameters, then contents; the
\* first one refused calls exit(1); else append the release notes section and
\* loadMarkdown() issues one read per page and one more for release-notes.txt
LoadMetaThen ==
  /\ pc = "meta"
  /\ rsvpHash(reads)
  /\ LET p == TextOf(reads, "parameters")
         c == TextOf(reads, "contents")
     IN  IF ~Accepted("parameters", p)
         THEN Exit /\ UNCHANGED <<meta, reads>>
         ELSE IF ~Accepted("contents", c)
         THEN /\ Exit
              /\ meta' = [k \in {"parameters"} |-> p.json]
              /\ UNCHANGED reads
         ELSE /\ meta' = [parameters |-> p.json, contents |-> Append(c.json, extra)]
              /\ reads' = MarkdownReads(Append(c.json, extra))
              /\ pc' = "markdown"
              /\ UNCHANGED exitCode
  /\ UNCHANGED <<console, options, templates, pages, sortedPages, writes, promises,
                 disk, copies, exec, child, pdfArgs, cleanUps, failedOps, twin>>


\* ---------------------------------------------------------------- navigation
\* sortPages: the sections of each column 1..5, in declaration order
sortPages(contents) ==
  [k \in 1..5 |-> SelectSeq(contents, LAMBDA section : section.column = k)]

\* the output file of a page: its source up to the last dot, then .html
htmlPath(source) == substr0(source, lastIndexOf(source, ".")) \o <<".", "html">>

\* the page links of a list of sections, section by section, page by page
LinksOf(sections) ==
  Flatten([i \in 1..Len(sections) |->
            [j \in 1..Len(sections[i].pages) |->
               [href |-> htmlPath(sections[i].pages[j].source),
                title |-> sections[i].pages[j].title]]])

\* webToc: the links of columns 1..4 of sortedPages in key order, and the PDF
\* button when options.pdf is set
webToc(opts, sorted) ==
  [links |-> Flatten([k \in 1..5 |-> IF k # 5 THEN LinksOf(sorted[k]) ELSE <<>>]),
   pdfButton |-> truthy(opts.pdf)]

\* allPages naming each page by its source, the extension kept
PathsOfSources(sections) ==
  Flatten([i \in 1..Len(sections) |->
            [j \in 1..Len(sections[i].pages) |->
               <<OutputDir>> \o sections[i].pages[j].source]])

\* getPdfArguments' allPages: the paths of every column of sortedPages in key
\* order
PathsOf(sections) ==
  Flatten([i \in 1..Len(sections) |->
            [j \in 1..Len(sections[i].pages) |->
               <<OutputDir>> \o htmlPath(sections[i].pages[j].source)]])

\* getPdfArguments walking the columns from 5 down to 1
getPdfArgumentsDescending(sorted) == Flatten([k \in 1..5 |-> PathsOf(sorted[6 - k])])

getPdfArguments(sorted) == Flatten([k \in 1..5 |-> PathsOf(sorted[k])])

\* ---------------------------------------------------------------- composition
\* a property of a JSON object, undefined when absent
Has(obj, f) == f \in DOMAIN obj

\* insertParameters throws a TypeError when the first section has no page
\* (homelink) or when a name/url object it reads is absent
insertParametersThrows(m) ==
  \/ m.contents[1].pages = <<>>
  \/ \E f \in {"author", "owner", "organization", "website", "backlink"} :
       ~Has(m.parameters, f)

\* a name/url object as insertParameters renders it: a link when the url is
\* not the empty string, the name alone otherwise
linkOrText(field) ==
  IF field.url # ""
  THEN <<"<a href=", field.url, ">", field.name, "</a>">>
  ELSE <<field.name>>

\* String.prototype.replace(/,\s*$/, ''): drop the comma that only whitespace
\* follows up to the end, and that whitespace
replaceTrailingComma(s) ==
  LET at == {i \in 1..Len(s) :
               s[i] = "," /\ \A j \in (i+1)..Len(s) : s[j] \in Whitespace}
  IN  IF at = {} THEN s
      ELSE SubSeq(s, 1, (CHOOSE i \in at : \A j \in at : i <= j) - 1)

\* the contributors string: every entry followed by ', ', then the trailing
\* comma removed
contributorsOf(list) ==
  replaceTrailingComma(
    Flatten([i \in 1..Len(list) |-> linkOrText(list[i]) \o <<",", " ">>]))

\* the values insertParameters computes from meta before it fills the templates
parametersOf(m) ==
  [title |-> m.parameters.title,
   homelink |-> htmlPath(m.contents[1].pages[1].source),
   author |-> linkOrText(m.parameters.author),
   owner |-> linkOrText(m.parameters.owner),
   organization |-> linkOrText(m.parameters.organization),
   website |-> linkOrText(m.parameters.website),
   backlink |-> linkOrText(m.parameters.backlink),
   contributors |-> contributorsOf(m.parameters.contributors)]

\* what the two math branches append to a head
KatexHead == <<"katex.min.css", "katex.min.js", "katexInjector.js">>
MathjaxHead == <<"MathJax.js">>

\* insertParameters: the values go into every template, $ being assigned each
\* template in turn and last being the key the for...in loop ends on; the
\* KaTeX branch assigns $ = templates.main and appends to its head; the
\* MathJax branch appends to the head of whatever $ is by then
insertParameters(opts, m, ts, last) ==
  LET values == parametersOf(m)
      filled == [k \in DOMAIN ts |-> [ts[k] EXCEPT !.params = values]]
      dollar == IF opts.mathKatex = TRUE THEN "main" ELSE last
      katex == IF opts.mathKatex = TRUE
               THEN [filled EXCEPT !["main"].head = @ \o KatexHead]
               ELSE filled
  IN  IF opts.mathMathjax = TRUE
      THEN [katex EXCEPT ![dollar].head = @ \o MathjaxHead]
      ELSE katex

\* the property name a loadMarkdown key stores its page under: key.source,
\* which is undefined for the string key
PageKey(key) == IF Has(key, "source") THEN key.source ELSE <<"undefined">>

IsHtml(key) == Has(key, "html") /\ key.html = TRUE

\* loadMarkdown's then-handler loop: pages[key.source] = the text itself for a
\* raw HTML page, markdown.render(text) otherwise; a later assignment to the
\* same property replaces an earlier one
renderAll(rs) ==
  [k \in {PageKey(rs[i].key) : i \in 1..Len(rs)} |->
     LET last == CHOOSE i \in 1..Len(rs) :
                   /\ PageKey(rs[i].key) = k
                   /\ \A j \in (i+1)..Len(rs) : PageKey(rs[j].key) # k
     IN  [kind |-> "html", text |-> rs[last].data, markdown |-> ~IsHtml(rs[last].key)]]

\* String.prototype.replace(/\s/g, '-'): a hyphen for each whitespace token
replaceEachWhitespace(s) ==
  [i \in 1..Len(s) |-> IF s[i] \in Whitespace THEN "-" ELSE s[i]]

\* String.prototype.replace(/\s+/g, '-'): a hyphen for each run of whitespace
RECURSIVE replaceWhitespace(_)
replaceWhitespace(s) ==
  IF s = <<>> THEN <<>>
  ELSE IF Head(s) \notin Whitespace THEN <<Head(s)>> \o replaceWhitespace(Tail(s))
  ELSE IF Len(s) > 1 /\ s[2] \in Whitespace THEN replaceWhitespace(Tail(s))
  ELSE <<"-">> \o replaceWhitespace(Tail(s))

\* the anchor of a heading: label.toLowerCase().replace(/\s+/g, '-')
anchor(label) ==
  replaceWhitespace([i \in 1..Len(label) |-> toLowerCase(label[i])])

\* the labels of the headings $('h1, h2, h3, h4, h5, h6') finds in a content
labelsOf(content) ==
  IF content.kind = "html" THEN content.text.headings
  ELSE [i \in 1..Len(content.headings) |-> content.headings[i].label]

\* cheerio.load(...) handing back the tree it was given
cloneShared(heap, ref) == [heap |-> heap, ref |-> ref]

\* cheerio.load(templates.main.html()): a new tree, equal to the one
\* serialized, at the next free place of the heap
clone(heap, ref) ==
  [heap |-> Append(heap, [heap[ref] EXCEPT !.tree = <<"tree", Len(heap) + 1>>]),
   ref |-> Len(heap) + 1]

\* what a pages entry holds: the rendered text, or the tree it refers to
treeAt(heap, entry) == IF entry.kind = "ref" THEN heap[entry.ref] ELSE entry

\* the body of processContent's loop on the tree $: container, content,
\* heading ids and page table of contents, the auto title, the table class
composePage(opts, tree, content, page) ==
  LET labels == labelsOf(content)
      headings == [i \in 1..Len(labels) |->
                     [label |-> labels[i], id |-> anchor(labels[i])]]
  IN  [tree EXCEPT
         !.wrapper = IF IsHtml(page) THEN "dg-innerContent" ELSE "w-fixed-width",
         !.content = content,
         !.headings = headings,
         !.pageToc = IF opts.pageToc = TRUE /\ ~IsHtml(page)
                     THEN [i \in 1..Len(headings) |-> headings[i].id] ELSE <<>>,
         !.title = page.title,
         !.hiddenTitle = IsHtml(page),
         !.tableClass = "w-table w-fixed w-stripe"]

\* processContent's loop: each page in declaration order gets a clone of the
\* main template (the tree at place 1 of the heap), is composed from
\* pages[page.source] and stored back under the same key
RECURSIVE composeAll(_, _, _, _)
composeAll(opts, ps, pgs, heap) ==
  IF ps = <<>> THEN [pages |-> pgs, heap |-> heap]
  ELSE LET page == Head(ps)
           new == clone(heap, 1)
           content == treeAt(new.heap, pgs[page.source])
           tree == composePage(opts, new.heap[new.ref], content, page)
       IN  composeAll(opts, Tail(ps),
                      [pgs EXCEPT ![page.source] = [kind |-> "ref", ref |-> new.ref]],
                      [new.heap EXCEPT ![new.ref] = tree])

\* the end of processContent: the ownership page is a clone of the main
\* template holding the web cover, and replaces templates.webCover
ownershipPage(heap, webCover) ==
  LET new == clone(heap, 1)
  IN  [heap |-> [new.heap EXCEPT ![new.ref] =
                   [@ EXCEPT !.wrapper = "w-fixed-width", !.content = webCover]],
       ref |-> new.ref]

\* processContent taking its clones first and calling insertParameters after
\* the loop and the ownership page
processContentCloneFirst(opts, m, ts, rendered, last) ==
  LET looped == composeAll(opts, PagesOf(m.contents), rendered, <<ts["main"]>>)
      own == ownershipPage(looped.heap, ts["webCover"])
      cloned == [ts EXCEPT !["main"] = own.heap[1], !["webCover"] = own.heap[own.ref]]
  IN  [pages |-> [k \in DOMAIN looped.pages |-> treeAt(own.heap, looped.pages[k])],
       templates |-> insertParameters(opts, m, cloned, last)]

\* processContent after webToc: insertParameters, the loop, the ownership
\* page; pages and templates as writePages finds them
processContent(opts, m, ts, rendered, last) ==
  LET withParams == insertParameters(opts, m, ts, last)
      looped == composeAll(opts, PagesOf(m.contents), rendered, <<withParams["main"]>>)
      own == ownershipPage(looped.heap, withParams["webCover"])
  IN  [pages |-> [k \in DOMAIN looped.pages |-> treeAt(own.heap, looped.pages[k])],
       templates |-> [withParams EXCEPT !["main"] = own.heap[1],
                                        !["webCover"] = own.heap[own.ref]]]

\* ---------------------------------------------------------------- writing
\* $.html(): the text a tree serializes to, told apart by the tree it is the
\* text of, by its title, by its link and by the parameter values it holds
html(dom) ==
  [tree |-> dom.tree, title |-> dom.title, link |-> dom.link, params |-> dom.params]

WriteOf(key, path, content) ==
  [key |-> key, path |-> path, content |-> content, state |-> "pending"]

\* the writeFile calls of writePages, in issue order: one per page, then
\* ownership.html, then the three temp files when options.pdf is true
writeCalls(opts, contents, pgs, ts) ==
  LET ps == PagesOf(contents)
  IN  [i \in 1..Len(ps) |->
         WriteOf(ps[i].source, <<OutputDir>> \o htmlPath(ps[i].source),
                 html(pgs[ps[i].source]))]
      \o << WriteOf(<<"ownership">>, <<OutputDir, "ownership", ".", "html">>,
                    html(ts["webCover"])) >>
      \o (IF strictlyTrue(opts.pdf)
          THEN << WriteOf(<<"docgenPdfCover">>,
                          <<OutputDir, "temp/", "pdfCover", ".", "html">>, html(ts["pdfCover"])),
                  WriteOf(<<"docgenPdfHeader">>,
                          <<OutputDir, "temp/", "pdfHeader", ".", "html">>, html(ts["pdfHeader"])),
                  WriteOf(<<"docgenPdfFooter">>,
                          <<OutputDir, "temp/", "pdfFooter", ".", "html">>, html(ts["pdfFooter"])) >>
          ELSE <<>>)

\* writePages' promises object: promises[key] = writeFile(...) keeps, for each
\* key, the promise of the last call made under that key
promisesOf(ws) ==
  [k \in {ws[i].key : i \in 1..Len(ws)} |->
     CHOOSE i \in 1..Len(ws) :
       ws[i].key = k /\ \A j \in (i+1)..Len(ws) : ws[j].key # k]

\* the writes rsvp.hash(promises) waits for
Tracked == {promises[k] : k \in DOMAIN promises}

TempDir == <<OutputDir, "temp/">>

Put(files, path, content) ==
  [p \in DOMAIN files \cup {path} |-> IF p = path THEN content ELSE files[p]]

\* loadMarkdown's then-handler: render every text, then processContent():
\* webToc (with sortPages), insertParameters, one clone per page, the ownership
\* page, and writePages() issuing every write. An exception anywhere in it
\* reaches loadMarkdown's catch handler, which calls exit(1). The for...in
\* order of templates is the order rsvp.hash filled its result in, which
\* follows the completion of the six reads: any key can be the last.
\* the templates the for...in loop of insertParameters may leave in $: any of
\* them, the order of the keys being the order the reads settled in; which one
\* shows only where the MathJax branch goes on using that $
LastKeys(opts) ==
  IF opts.mathMathjax = TRUE /\ opts.mathKatex # TRUE
  THEN Range(TemplateKeys) ELSE {"main"}

LoadMarkdownThen ==
  /\ pc = "markdown"
  /\ rsvpAll(reads)
  /\ \E thrown \in {"none", "render", "mkdirs"}, last \in LastKeys(options) :
       LET rendered == renderAll(reads)
           sorted == sortPages(meta.contents)
           toc == webToc(options, sorted)
           withToc == [templates EXCEPT !["main"].toc = toc.links,
                                        !["main"].pdfButton = toc.pdfButton]
           processed == processContent(options, meta, withToc, rendered, last)
           composed == processed.pages
           final == processed.templates
           calls == writeCalls(options, meta.contents, composed, final)
       IN  IF thrown = "render"
           THEN /\ Exit
                /\ failedOps' = failedOps \cup {"render"}
                /\ UNCHANGED <<pages, sortedPages, templates, writes, promises, disk>>
           ELSE IF insertParametersThrows(meta)
           THEN /\ Exit
                /\ pages' = rendered
                /\ sortedPages' = sorted
                /\ templates' = withToc
                /\ UNCHANGED <<writes, promises, disk, failedOps>>
           ELSE /\ pages' = composed
                /\ sortedPages' = sorted
                /\ templates' = final
                /\ writes' = IF thrown = "mkdirs"
                             THEN SubSeq(calls, 1, Len(calls) - 3) ELSE calls
                /\ IF thrown = "mkdirs"
                   THEN /\ strictlyTrue(options.pdf)
                        /\ Exit
                        /\ failedOps' = failedOps \cup {"mkdirs"}
                        /\ UNCHANGED <<promises, disk>>
                   ELSE /\ promises' = promisesOf(calls)
                        /\ disk' = IF strictlyTrue(options.pdf)
                                   THEN Put(disk, TempDir, "dir") ELSE disk
                        /\ pc' = "writing"
                        /\ UNCHANGED <<exitCode, failedOps>>
  /\ twin' = InStep(catchHandler(options), catchHandler(Twin(options)))
  /\ UNCHANGED <<console, options, reads, meta, copies, exec, child, pdfArgs, cleanUps>>


\* the process is alive and writes may still complete
Alive == pc \in {"writing", "versionCheck", "pdf", "done"}

\* writeFile's callback without error
WriteFileOk ==
  /\ Alive
  /\ \E i \in Pending(writes) :
       /\ writes' = [writes EXCEPT ![i].state = "done"]
       /\ disk' = Put(disk, writes[i].path, writes[i].content)
  /\ UNCHANGED <<console, options, pc, exitCode, reads, templates, meta, pages,
                 sortedPages, promises, copies, exec, child, pdfArgs,
                 cleanUps, failedOps, twin>>

\* writeFile's callback with an error: the promise rejects. If rsvp.hash holds
\* it, writePages' catch handler calls exit(1); a promise that was replaced in
\* the promises object has no handler and its rejection goes unnoticed.
WriteFileError ==
  /\ Alive
  /\ \E i \in Pending(writes) :
       /\ writes' = [writes EXCEPT ![i].state = "failed"]
       /\ IF i \in Tracked
          THEN /\ Exit
               /\ twin' = InStep(catchHandler(options), catchHandler(Twin(options)))
          ELSE UNCHANGED <<pc, exitCode, twin>>
  /\ failedOps' = failedOps \cup {"write"}
  /\ UNCHANGED <<console, options, reads, templates, meta, pages, sortedPages,
                 promises, disk, copies, exec, child, pdfArgs, cleanUps>>

\* ---------------------------------------------------------------- finalizer
\* the static trees writePages' then-handler copies, in call order
copyTrees(opts) ==
  <<"require", "files">> \o (IF opts.mathKatex = TRUE THEN <<"katex">> ELSE <<>>)

\* the copyDirSync calls made when the fs.copySync of the trees in failing
\* throw: the calls stop at the first one that exits
copyCalls(opts, failing) ==
  LET trees == copyTrees(opts)
      exits == {i \in 1..Len(trees) :
                  copyDirSync(opts, trees[i] \in failing) = "exit"}
      n == IF exits = {} THEN Len(trees)
           ELSE CHOOSE i \in exits : \A j \in exits : i <= j
  IN  [i \in 1..n |-> [tree |-> trees[i], ok |-> trees[i] \notin failing]]

Exits(opts, calls) ==
  calls # <<>> /\ copyDirSync(opts, ~calls[Len(calls)].ok) = "exit"

Remove(files, paths) == [p \in DOMAIN files \ paths |-> files[p]]

TempFiles(files) == {p \in DOMAIN files : Len(p) >= 2 /\ p[2] = "temp/"}

\* whether both runs of the pair handled every copy the same way
AfterCopies(opts, calls) ==
  IF \E i \in 1..Len(calls) :
       copyDirSync(opts, ~calls[i].ok) # copyDirSync(Twin(opts), ~calls[i].ok)
  THEN "diverged" ELSE twin

\* the name of the final directory of options.output
RedirectParent == "out"

RedirectFile == <<OutputDir, "../", "index", ".", "html">>

\* createRedirect calling exit(1) in its catch block when verbose
createRedirectFatal(opts, m, ts, files, error) ==
  [templates |-> ts, files |-> files,
   console |-> IF opts.redirect = TRUE /\ error
               THEN {"Error writing redirect file"} ELSE {},
   ends |-> IF opts.redirect = TRUE /\ error /\ opts.verbose = TRUE
            THEN "exit" ELSE "return"]

\* createRedirect: with options.redirect, point the redirect template at the
\* first page of the first section and write it next to the output directory
\* (error: fs.outputFileSync throws); the failure is reported and the function
\* returns
createRedirect(opts, m, ts, files, error) ==
  LET redirectLink == <<RedirectParent, "/">> \o htmlPath(m.contents[1].pages[1].source)
      dom == [ts["redirect"] EXCEPT !.link = redirectLink]
  IN  IF opts.redirect = FALSE
      THEN [templates |-> ts, files |-> files, console |-> {}, ends |-> "return"]
      ELSE [templates |-> [ts EXCEPT !["redirect"] = dom],
            files |-> IF error THEN files ELSE Put(files, RedirectFile, html(dom)),
            console |-> IF error THEN {"Error writing redirect file"} ELSE {},
            ends |-> "return"]

\* cleanUp: createRedirect, then removeDirSync of the temp directory when
\* options.pdf is true (removeError: its fs.removeSync throws), then Done!;
\* ends says whether exit(1) was called before Done!
cleanUp(opts, m, ts, files, redirectError, removeError) ==
  LET made == createRedirect(opts, m, ts, files, redirectError)
      removes == made.ends = "return" /\ strictlyTrue(opts.pdf)
      ends == IF made.ends = "exit" THEN "exit"
              ELSE IF removes THEN removeDirSync(opts, removeError) ELSE "return"
  IN  [templates |-> made.templates,
       files |-> IF removes /\ ~removeError
                 THEN Remove(made.files, TempFiles(made.files)) ELSE made.files,
       console |-> made.console
                     \cup (IF removes /\ removeError
                           THEN {"Error removing directory"} ELSE {})
                     \cup (IF ends = "return" THEN {"Done!"} ELSE {}),
       ends |-> ends]

\* writePages' then-handler, once every promise rsvp.hash holds is fulfilled:
\* copy the static trees, then checkPdfVersion(): with options.pdf the version
\* command is started, without it cleanUp() runs
WritePagesThen ==
  /\ pc = "writing"
  /\ rsvpHash([i \in 1..Len(writes) |->
                 IF i \in Tracked THEN writes[i] ELSE [state |-> "done"]])
  /\ \E failing \in SUBSET Range(copyTrees(options)), redirectError \in BOOLEAN :
       LET calls == copyCalls(options, failing)
           end == cleanUp(options, meta, templates, disk, redirectError, FALSE)
           cleans == ~Exits(options, calls) /\ ~strictlyTrue(options.pdf)
       IN  /\ redirectError => cleans /\ options.redirect = TRUE
           /\ copies' = calls
           /\ failedOps' = failedOps
                             \cup (IF \E i \in 1..Len(calls) : ~calls[i].ok
                                   THEN {"copy"} ELSE {})
                             \cup (IF redirectError THEN {"redirect"} ELSE {})
           /\ twin' = AfterCopies(options, calls)
           /\ IF Exits(options, calls)
              THEN /\ Exit
                   /\ UNCHANGED <<exec, cleanUps, disk, templates, console>>
              ELSE IF strictlyTrue(options.pdf)
              THEN /\ exec' = "running"
                   /\ pc' = "versionCheck"
                   /\ UNCHANGED <<exitCode, cleanUps, disk, templates, console>>
              ELSE /\ cleanUps' = cleanUps + 1
                   /\ disk' = end.files
                   /\ templates' = end.templates
                   /\ console' = console \cup end.console
                   /\ IF end.ends = "exit"
                      THEN Exit
                      ELSE pc' = "done" /\ exitCode' = 0
                   /\ UNCHANGED exec
  /\ UNCHANGED <<options, reads, meta, pages, sortedPages, writes, promises,
                 child, pdfArgs>>

\* ---------------------------------------------------------------- PDF
PdfFile == <<OutputDir, toLowerCase(meta.parameters.name), ".", "pdf">>

\* what checkPdfVersion's exec callback can be called with: an error, or the
\* stdout of the version command
ExecOutcomes == {"error", "expected", "unexpected"}

\* the exec callback going on to generatePdf() whatever it was called with
execCallbackLenient(outcome) == "generatePdf"

\* the exec callback calling exit(1) for any version but the expected one
execCallbackStrict(outcome) == IF outcome = "expected" THEN "generatePdf" ELSE "exit"

\* checkPdfVersion's exec callback: exit(1) on an error, generatePdf() otherwise
execCallback(outcome) == IF outcome = "error" THEN "exit" ELSE "generatePdf"

\* checkPdfVersion's exec callback: an error calls exit(1); otherwise, with or
\* without the version warning, generatePdf() builds the arguments and spawns
\* the renderer
ExecCallback ==
  /\ pc = "versionCheck"
  /\ exec = "running"
  /\ \E outcome \in ExecOutcomes :
       /\ exec' = outcome
       /\ failedOps' = IF outcome = "error" THEN failedOps \cup {"exec"} ELSE failedOps
       /\ console' = console
                       \cup (IF outcome = "error" THEN {"Unable to call wkhtmltopdf"} ELSE {})
                       \cup (IF outcome = "unexpected"
                             THEN {"Warning: unexpected version of wkhtmltopdf"} ELSE {})
       /\ IF execCallback(outcome) = "exit"
          THEN /\ Exit
               /\ UNCHANGED <<pdfArgs, child>>
          ELSE /\ pdfArgs' = getPdfArguments(sortedPages)
               /\ child' = "running"
               /\ pc' = "pdf"
               /\ UNCHANGED exitCode
  /\ UNCHANGED <<options, reads, templates, meta, pages, sortedPages, writes,
                 promises, disk, copies, cleanUps, twin>>

\* the 'error' handler calling exit(1) after its report
onErrorFatal ==
  [console |-> {"Error calling wkhtmltopdf to generate the PDF"}, then |-> "exit"]

\* what the 'error' handler does: report the launch error and return
onError ==
  [console |-> {"Error calling wkhtmltopdf to generate the PDF"}, then |-> "return"]

\* the child's 'error' event: the launch error is reported, nothing else
ChildError ==
  /\ pc = "pdf"
  /\ child = "running"
  /\ child' = "errored"
  /\ failedOps' = failedOps \cup {"spawn"}
  /\ console' = console \cup onError.console
  /\ IF onError.then = "exit" THEN Exit ELSE UNCHANGED <<pc, exitCode>>
  /\ UNCHANGED <<options, reads, templates, meta, pages,
                 sortedPages, writes, promises, disk, copies, exec, pdfArgs,
                 cleanUps, twin>>

\* the 'close' handler calling exit(1) for a non-zero code
onCloseFatal(code) ==
  [console |-> IF code # 0 THEN {"wkhtmltopdf exited with a warning or error"} ELSE {},
   then |-> IF code # 0 THEN "exit" ELSE "cleanUp"]

\* what the 'close' handler does with the exit code: a warning for a non-zero
\* code, and cleanUp() in either case
onClose(code) ==
  [console |-> IF code # 0 THEN {"wkhtmltopdf exited with a warning or error"} ELSE {},
   then |-> "cleanUp"]

\* the child's 'close' event: a warning for a non-zero code, then cleanUp()
ChildClose ==
  /\ pc = "pdf"
  /\ child \in {"running", "errored"}
  /\ \E code \in {0, 1}, produced \in BOOLEAN, error \in BOOLEAN,
        redirectError \in BOOLEAN :
       /\ child = "errored" => code # 0 /\ ~produced
       /\ code = 0 => produced
       /\ redirectError => options.redirect = TRUE
       /\ LET files == IF produced THEN Put(disk, PdfFile, "pdf") ELSE disk
              closed == onClose(code)
              end == cleanUp(options, meta, templates, files, redirectError, error)
          IN  /\ child' = IF code = 0 THEN "closed" ELSE "failed"
              /\ failedOps' = failedOps
                                \cup (IF code # 0 THEN {"renderer"} ELSE {})
                                \cup (IF error THEN {"remove"} ELSE {})
                                \cup (IF redirectError THEN {"redirect"} ELSE {})
              /\ IF closed.then = "exit"
                 THEN /\ Exit
                      /\ console' = console \cup closed.console
                      /\ UNCHANGED <<twin, cleanUps, disk, templates>>
                 ELSE /\ twin' = InStep(removeDirSync(options, error),
                                        removeDirSync(Twin(options), error))
                      /\ cleanUps' = cleanUps + 1
                      /\ disk' = end.files
                      /\ templates' = end.templates
                      /\ console' = console \cup closed.console \cup end.console
                      /\ IF end.ends = "exit"
                         THEN Exit
                         ELSE pc' = "done" /\ exitCode' = 0
  /\ UNCHANGED <<options, reads, meta, pages, sortedPages, writes,
                 promises, copies, exec, pdfArgs>>

Next ==
  \/ Run
  \/ ReadFileOk
  \/ ReadFileError
  \/ LoadTemplatesThen
  \/ LoadMetaThen
  \/ LoadMarkdownThen
  \/ WriteFileOk
  \/ WriteFileError
  \/ WritePagesThen
  \/ ExecCallback
  \/ ChildError
  \/ ChildClose

Spec == Init /\ [][Next]_vars

\* the runs that ask for the redirect page
SpecRedirect == InitRedirect /\ [][Next]_vars

\* the runs that change the markup of the pages
SpecMarkup == InitMarkup /\ [][Next]_vars

\* the runs that differ in the value of pdf alone
SpecPdfValues == InitPdfValues /\ [][Next]_vars

\* the runtime emits 'close' for a child it has started or failed to start,
\* once the child's streams are closed
FairSpec == Spec /\ WF_vars(ChildClose)

\* ---------------------------------------------------------------- headings
\* the contents list of the runs on heading labels: one page, and the release
\* notes section
HeadingContents == <<Section("Guide", 1, <<IntroMd>>), extra>>

\* the reads of loadMarkdown, fulfilled: the page's text holds one heading, or
\* the same heading twice
HeadingReads(label, twice) ==
  LET rs == MarkdownReads(HeadingContents)
  IN  [i \in 1..Len(rs) |->
         [rs[i] EXCEPT
            !.state = "done",
            !.data = SourceText(rs[i].path,
                                IF i # 1 THEN <<SampleLabel>>
                                ELSE IF twice THEN <<label, label>> ELSE <<label>>)]]

\* a run as loadMarkdown's then-handler finds it, the page's heading being any
\* label
InitHeadings ==
  /\ options \in {[Defaults EXCEPT !.pageToc = t, !.pdf = boolean(p)] :
                    t \in BOOLEAN, p \in BOOLEAN}
  /\ pc = "markdown"
  /\ exitCode = -1
  /\ \E label \in Labels, twice \in BOOLEAN : reads = HeadingReads(label, twice)
  /\ templates = [k \in Range(TemplateKeys) |->
                    cheerioLoad(<<"templates/", k, ".", "html">>)]
  /\ meta = [parameters |-> FullParameters, contents |-> HeadingContents]
  /\ pages = NoFiles
  /\ sortedPages = NoFiles
  /\ writes = <<>>
  /\ promises = NoFiles
  /\ disk = NoFiles
  /\ copies = <<>>
  /\ exec = "none"
  /\ child = "none"
  /\ pdfArgs = <<>>
  /\ cleanUps = 0
  /\ failedOps = {}
  /\ console = {}
  /\ twin = "lockstep"

SpecHeadings == InitHeadings /\ [][LoadMarkdownThen]_vars


\* ---------------------------------------------------------------- claims
Hrefs(links) == [i \in 1..Len(links) |-> links[i].href]

\* the files of the output root itself that end in .html
HtmlFiles(files) ==
  {p \in DOMAIN files : p[1] = OutputDir /\ p[2] \notin {"temp/", "../"} /\ p[Len(p)] = "html"}

\* both JSON texts have been read and loadMeta's handler is to judge them
MetaRead == reads # <<>> /\ reads[1].stage = "meta" /\ rsvpHash(reads)

\* a JSON text that does not parse or does not conform to its schema
RefusedParameters(text) == ~text.wellFormed \/ ~ValidParameters(text.json)
RefusedContents(text) == ~text.wellFormed \/ ~ValidContents(text.json)

MetaRefused ==
  /\ MetaRead
  /\ \/ RefusedParameters(TextOf(reads, "parameters"))
     \/ RefusedContents(TextOf(reads, "contents"))

\* the contents list as contents.json gave it, without the appended section
Declared(contents) == SubSeq(contents, 1, Len(contents) - 1)

\* C1: when parameters.json or contents.json is malformed or fails its schema
\* the run ends with exit(1) with no source read issued, no page rendered and
\* no write issued; and source reading only ever starts from documents that
\* conform to their schemas.
C1_FailFastOnInvalidMeta ==
  /\ MetaRefused =>
       /\ pc \in {"meta", "exited"}
       /\ pc = "exited" => exitCode = 1
       /\ pages = NoFiles
       /\ writes = <<>>
       /\ DOMAIN disk \subseteq {StaleFile}
  /\ pc \in {"markdown", "writing", "versionCheck", "pdf", "done"} =>
       /\ ValidParameters(meta.parameters)
       /\ ValidContents(Declared(meta.contents))

C1_Witness ==
  /\ MetaRefused
  /\ pc = "exited"
  /\ TextOf(reads, "parameters").wellFormed
  /\ ~ValidParameters(TextOf(reads, "parameters").json)

\* the run has ended and nothing is in flight
Ended == pc \in {"done", "exited"} /\ Pending(writes) = {}

\* C2: a run whose two documents passed validation and in which no file
\* operation failed ends without a fatal error, with exactly one HTML file per
\* declared page plus ownership.html in the output root.
C2_OneFilePerPage ==
  (Ended /\ DOMAIN meta = {"parameters", "contents"} /\ failedOps = {}) =>
    /\ exitCode = 0
    /\ HtmlFiles(disk) =
         {<<OutputDir>> \o htmlPath(pg.source) : pg \in Range(PagesOf(meta.contents))}
           \cup {<<OutputDir, "ownership", ".", "html">>}
    /\ Cardinality(HtmlFiles(disk)) = Len(PagesOf(meta.contents)) + 1

IsExtra(section) ==
  /\ section.heading = "Extra"
  /\ section.column = 5
  /\ Len(section.pages) = 1
  /\ section.pages[1].source = ReleaseNotes

\* C3: after loadMeta the contents list holds exactly one Extra section
\* (heading "Extra", column 5, the one page release-notes.txt) and it is the
\* only section of column 5; after sortPages bucket 5 holds that section and
\* nothing else.
C3_ExtraOnceInColumnFive ==
  /\ "contents" \in DOMAIN meta =>
       /\ Cardinality({i \in 1..Len(meta.contents) : IsExtra(meta.contents[i])}) = 1
       /\ Cardinality({i \in 1..Len(meta.contents) : meta.contents[i].column = 5}) = 1
  /\ DOMAIN sortedPages # {} =>
       /\ Len(sortedPages[5]) = 1
       /\ IsExtra(sortedPages[5][1])

C3_Witness ==
  /\ DOMAIN sortedPages # {}
  /\ Len(meta.contents) = 3
  /\ meta.contents[1].column > meta.contents[2].column

\* the pages of columns 1..4, column by column, sections and pages in
\* declaration order
ColumnMajor(contents) ==
  Flatten([k \in 1..4 |->
    Flatten([i \in 1..Len(contents) |->
      IF contents[i].column = k
      THEN [j \in 1..Len(contents[i].pages) |-> htmlPath(contents[i].pages[j].source)]
      ELSE <<>>])])

\* the page arguments of columns 1..4: all but those of column 5, without the
\* output directory
PdfPages ==
  [i \in 1..(Len(pdfArgs) - Len(PathsOf(sortedPages[5]))) |-> Tail(pdfArgs[i])]

\* C4: once the renderer is spawned, the links of the web table of contents
\* and the page arguments of columns 1..4 are the same sequence, and it is the
\* column-major one.
C4_TocOrderIsPdfOrder ==
  child # "none" =>
    /\ Hrefs(templates["main"].toc) = PdfPages
    /\ PdfPages = ColumnMajor(meta.contents)

C4_Witness ==
  /\ child # "none"
  /\ Len(meta.contents) = 3
  /\ meta.contents[1].column > meta.contents[2].column
  /\ meta.contents[1].pages # <<>>
  /\ meta.contents[2].pages # <<>>
  /\ htmlPath(meta.contents[1].pages[1].source) # htmlPath(meta.contents[2].pages[1].source)


AllWritten == \A i \in 1..Len(writes) : writes[i].state = "done"

\* C5: with PDF output, the version command starts only after every page
\* write, the ownership.html write and the three temp writes have completed
\* successfully, and the renderer is spawned only after the version command
\* has returned and the arguments are built, still with no write in flight.
C5_SpawnAfterEveryWrite ==
  /\ exec # "none" => AllWritten /\ strictlyTrue(options.pdf)
  /\ child # "none" =>
       /\ AllWritten
       /\ exec \in {"expected", "unexpected"}
       /\ pdfArgs = getPdfArguments(sortedPages)

\* the source reads of loadMarkdown are the reads of the current stage
SourceReads == reads # <<>> /\ reads[1].stage = "markdown"

Composed == pages # NoFiles \/ DOMAIN sortedPages # {} \/ writes # <<>>

\* C6: loadMarkdown issues one read per declared page and one more at once;
\* composition starts only when every one of them has completed successfully;
\* and when one fails the run has called exit(1) with no page composed and no
\* write issued.
C6_ContentLoadingBarrier ==
  /\ pc = "markdown" =>
       /\ SourceReads
       /\ Len(reads) = Len(PagesOf(meta.contents)) + 1
  /\ Composed =>
       /\ SourceReads
       /\ \A i \in 1..Len(reads) : reads[i].state = "done"
  /\ (SourceReads /\ \E i \in 1..Len(reads) : reads[i].state = "failed") =>
       /\ pc = "exited"
       /\ exitCode = 1
       /\ ~Composed
       /\ DOMAIN disk \subseteq {StaleFile}

C6_Witness ==
  /\ SourceReads
  /\ pc = "exited"
  /\ Len(reads) >= 3
  /\ reads[1].state = "done"
  /\ reads[2].state = "failed"
  /\ reads[3].state = "pending"

\* C7: when one of the output writes fails the run has called exit(1) and no
\* downstream stage has run: no copy, no version command, no renderer, no
\* finalizer.
C7_WriteFailureIsFatal ==
  (\E i \in 1..Len(writes) : writes[i].state = "failed") =>
    /\ pc = "exited"
    /\ exitCode = 1
    /\ copies = <<>>
    /\ exec = "none"
    /\ child = "none"
    /\ cleanUps = 0

\* C8: the run with the other value of options.verbose, given the same inputs
\* and the same failing operation, ends the same way: both through exit(1) or
\* both going on.
C8_VerbosityDoesNotClassify == twin = "lockstep"

\* C9: with options.verbose off, a copyDirSync whose copy failed is the last
\* one made and the run has called exit(1): no version command, no finalizer.
C9_CopyFailureTerminates ==
  \A i \in 1..Len(copies) :
    (~copies[i].ok /\ options.verbose = FALSE) =>
      /\ i = Len(copies)
      /\ pc = "exited"
      /\ exitCode = 1
      /\ exec = "none"
      /\ cleanUps = 0

\* C10: with PDF output, when the version command could not be executed the
\* run has called exit(1): the renderer was never spawned, there is no PDF
\* file and the finalizer has not run.
C10_NoRendererNoPdf ==
  exec = "error" =>
    /\ strictlyTrue(options.pdf)
    /\ pc = "exited"
    /\ exitCode = 1
    /\ child = "none"
    /\ pdfArgs = <<>>
    /\ PdfFile \notin DOMAIN disk
    /\ cleanUps = 0

C10_Witness ==
  /\ exec = "error"
  /\ AllWritten
  /\ Len(writes) >= 5

\* C11: with PDF output, when the version command reports another version
\* than the expected one, the warning is reported, the version check does not
\* call exit(1), the renderer is spawned with the arguments of
\* getPdfArguments as for the expected version, and a renderer that succeeds
\* leaves the PDF and a run ended with status 0.
C11_VersionMismatchIsAWarning ==
  exec = "unexpected" =>
    /\ "Warning: unexpected version of wkhtmltopdf" \in console
    /\ child # "none"
    /\ pdfArgs = getPdfArguments(sortedPages)
    /\ pc = "exited" => cleanUps = 1 /\ "remove" \in failedOps
    /\ (child = "closed" /\ "remove" \notin failedOps) =>
         /\ pc = "done"
         /\ exitCode = 0
         /\ PdfFile \in DOMAIN disk

C11_Witness ==
  /\ exec = "unexpected"
  /\ child = "closed"
  /\ pc = "done"
  /\ exitCode = 0

\* C12: when the renderer closes, with a non-zero code as with code 0, the
\* finalizer runs once and the run ends with status 0; the non-zero code is
\* reported as a warning and exit(1) is called for neither code (only a
\* failing removal of the temp directory ends the finalizer otherwise).
C12_NonZeroExitIsAWarning ==
  /\ child = "failed" => "wkhtmltopdf exited with a warning or error" \in console
  /\ child \in {"closed", "failed"} =>
       /\ cleanUps = 1
       /\ pc \in {"done", "exited"}
       /\ pc = "exited" => "remove" \in failedOps
       /\ pc = "done" => exitCode = 0 /\ "Done!" \in console
       /\ "remove" \notin failedOps => pc = "done" /\ TempFiles(disk) = {}

C12_Witness ==
  /\ child = "failed"
  /\ "spawn" \notin failedOps
  /\ pc = "done"
  /\ "Done!" \in console
  /\ TempFiles(disk) = {}

\* C13: the finalizer runs at most once; a run that ended without a fatal
\* error ran it once, as its last step, with nothing left in flight; and it
\* has not run in a run that called exit(1).
C13_FinalizerOnceAndLast ==
  /\ cleanUps <= 1
  /\ pc = "done" =>
       /\ cleanUps = 1
       /\ "Done!" \in console
       /\ Pending(writes) = {}
  /\ exitCode = 1 => cleanUps = 0

\* C14: with PDF output, once the PDF step has had its outcome and the run has
\* ended, the temp directory and its files are gone from the output root.
C14_TempRemovedWhateverThePdfOutcome ==
  (strictlyTrue(options.pdf) /\ exec \notin {"none", "running"} /\ Ended) =>
    TempFiles(disk) = {}

\* C15: when the redirect file could not be written the failure is reported
\* and the finalizer goes on: exit(1) is not called for it, the temp directory
\* is removed and the run ends with status 0, with verbose on or off.
C15_RedirectFailureIsNotFatal ==
  "redirect" \in failedOps =>
    /\ options.redirect = TRUE
    /\ "Error writing redirect file" \in console
    /\ RedirectFile \notin DOMAIN disk
    /\ cleanUps = 1
    /\ pc = "exited" => "remove" \in failedOps
    /\ "remove" \notin failedOps =>
         /\ pc = "done"
         /\ exitCode = 0
         /\ "Done!" \in console
         /\ TempFiles(disk) = {}

C15_Witness ==
  /\ "redirect" \in failedOps
  /\ strictlyTrue(options.pdf)
  /\ options.verbose = TRUE
  /\ pc = "done"
  /\ TempFiles(disk) = {}

\* the source reads are all fulfilled and loadMarkdown's then-handler has run
Processed == SourceReads /\ rsvpAll(reads) /\ pc # "markdown"

\* a name/url object shown as the plain name for an empty url, as a link
\* otherwise
Shown(field) ==
  IF field.url = "" THEN <<field.name>>
  ELSE <<"<a href=", field.url, ">", field.name, "</a>">>

\* the entries of a list, ', ' between two of them
RECURSIVE Joined(_)
Joined(list) ==
  IF list = <<>> THEN <<>>
  ELSE IF Len(list) = 1 THEN Shown(list[1])
  ELSE Shown(list[1]) \o <<",", " ">> \o Joined(Tail(list))

\* C16: for parameters that passed validation, once the then-handler ran (no
\* render error, a first page to link home to), every template holds each
\* link-or-text field as the plain name for an empty url and as a link
\* otherwise, and the contributors joined by ', ' with no trailing separator:
\* rendering has not failed.
C16_LinkOrTextFields ==
  (Processed /\ "render" \notin failedOps /\ meta.contents[1].pages # <<>>) =>
    \A k \in DOMAIN templates :
      LET shown == templates[k].params
      IN  /\ DOMAIN shown # {}
          /\ \A f \in {"author", "owner", "organization", "website", "backlink"} :
               shown[f] = Shown(meta.parameters[f])
          /\ shown.contributors = Joined(meta.parameters.contributors)

\* the trees the written pages are serialized from
PageTrees ==
  {pages[k] : k \in {pg.source : pg \in Range(PagesOf(meta.contents))}}
    \cup {templates["webCover"]}

\* C17: once the pages are composed, the head of every page tree and of the
\* ownership page holds the KaTeX references when mathKatex is set and the
\* MathJax reference when mathMathjax is set, whichever template the loop of
\* insertParameters ended on.
C17_MathReferencesInEveryPage ==
  writes # <<>> =>
    \A tree \in PageTrees :
      /\ options.mathKatex = TRUE => Range(KatexHead) \subseteq Range(tree.head)
      /\ options.mathMathjax = TRUE => Range(MathjaxHead) \subseteq Range(tree.head)

\* the pages whose source no other declared page has
DeclaredOnce ==
  LET ps == PagesOf(meta.contents)
  IN  {ps[i] : i \in {i \in 1..Len(ps) :
                        \A j \in 1..Len(ps) : ps[j].source = ps[i].source => j = i}}

\* C19: once the pages are composed, every page and the ownership page is a
\* tree of its own, none of them the main template; the main template holds
\* no page's content, headings, title or table class; and the tree of a page
\* holds the text read for that page and that page's title.
C19_OneCloneForEachPage ==
  writes # <<>> =>
    /\ \A tree \in PageTrees : tree.kind = "dom"
    /\ Cardinality({tree.tree : tree \in PageTrees} \cup {templates["main"].tree})
         = Cardinality({pg.source : pg \in Range(PagesOf(meta.contents))}) + 2
    /\ templates["main"].content = <<>>
    /\ templates["main"].headings = <<>>
    /\ templates["main"].title = ""
    /\ templates["main"].tableClass = ""
    /\ \A pg \in DeclaredOnce :
         /\ pages[pg.source].content.kind = "html"
         /\ pages[pg.source].content.text.path = <<InputDir>> \o pg.source
         /\ pages[pg.source].title = pg.title
    /\ templates["webCover"].content.kind = "dom"
    /\ templates["webCover"].content.file = <<"templates/", "webCover", ".", "html">>
    /\ templates["webCover"].title = ""

C19_Witness ==
  /\ writes # <<>>
  /\ Cardinality(DeclaredOnce) = 3
  /\ {<<"guide", ".", "md">>, <<"intro", ".", "md">>} \subseteq DOMAIN pages
  /\ pages[<<"guide", ".", "md">>].title = "guide"
  /\ pages[<<"intro", ".", "md">>].title = "intro"

\* the places of a label that stay: every token that is not whitespace, and
\* the first token of every run of whitespace
Kept(t) == {i \in 1..Len(t) : t[i] \notin Whitespace \/ i = 1 \/ t[i-1] \notin Whitespace}

\* the label in small letters, one hyphen for each run of whitespace
Slug(t) ==
  LET place(j) == CHOOSE i \in Kept(t) : Cardinality({x \in Kept(t) : x < i}) = j - 1
  IN  [j \in 1..Cardinality(Kept(t)) |->
         IF t[place(j)] \in Whitespace THEN "-" ELSE toLowerCase(t[place(j)])]

\* C18: the id of every heading of a composed page is its label in small
\* letters with one hyphen for each run of whitespace; making the anchor of
\* that id gives the id again; and two headings with the same label have the
\* same id.
C18_SlugIsIdempotent ==
  writes # <<>> =>
    \A tree \in PageTrees :
      \A i \in 1..Len(tree.headings) :
        /\ tree.headings[i].id = Slug(tree.headings[i].label)
        /\ anchor(tree.headings[i].id) = tree.headings[i].id
        /\ \A j \in 1..Len(tree.headings) :
             tree.headings[j].label = tree.headings[i].label
               => tree.headings[j].id = tree.headings[i].id

C18_Witness ==
  /\ writes # <<>>
  /\ Len(pages[IntroMd.source].headings) = 2
  /\ pages[IntroMd.source].headings[1].label = <<"A", " ", "\t">>
  /\ pages[IntroMd.source].headings[2].id = <<"a", "-">>

\* C20: when the child emitted 'error' the error is reported and exit(1) is
\* not called for it; the finalizer has not run yet and runs at most once; and
\* from there the finalizer eventually runs, and removes the temp directory
\* unless that removal fails.
C20_LaunchErrorStillCleansUp ==
  /\ [](child = "errored" =>
          /\ "Error calling wkhtmltopdf to generate the PDF" \in console
          /\ pc = "pdf"
          /\ exitCode = -1
          /\ cleanUps = 0)
  /\ [](cleanUps <= 1)
  /\ (child = "errored") ~>
       (cleanUps = 1 /\ ("remove" \notin failedOps => pc = "done" /\ TempFiles(disk) = {}))

C20_Witness ==
  /\ "spawn" \in failedOps
  /\ child = "failed"
  /\ cleanUps = 1
  /\ pc = "done"
  /\ TempFiles(disk) = {}

\* the output path of a source: the tokens before its last dot (none when it
\* has no dot), then .html
DerivedPath(source) ==
  LET dots == {i \in 1..Len(source) : source[i] = "."}
      cut == IF dots = {} THEN 0 ELSE (CHOOSE i \in dots : \A j \in dots : j <= i) - 1
  IN  [i \in 1..cut |-> source[i]] \o <<".", "html">>

\* the first page of the first section
HomePage == meta.contents[1].pages[1]

\* C21: every use of a page's output path is the one derived from its source
\* by truncating at the last dot and appending .html: each page's write, the
\* link of every declared page in the web table of contents, each page
\* argument of the renderer, the home link of the templates, and the target of
\* the redirect page as prepared and as written.
C21_OnePathRule ==
  /\ writes # <<>> =>
       \A i \in 1..Len(PagesOf(meta.contents)) :
         /\ writes[i].key = PagesOf(meta.contents)[i].source
         /\ writes[i].path = <<OutputDir>> \o DerivedPath(writes[i].key)
  /\ DOMAIN sortedPages # {} =>
       LET declared == PagesOf(Declared(meta.contents))
           toc == templates["main"].toc
       IN  /\ Len(toc) = Len(declared)
           /\ \A i \in 1..Len(declared) :
                \E j \in 1..Len(toc) :
                  /\ toc[j].title = declared[i].title
                  /\ toc[j].href = DerivedPath(declared[i].source)
  /\ child # "none" =>
       /\ Len(pdfArgs) = Len(PagesOf(meta.contents))
       /\ \A i \in 1..Len(PagesOf(meta.contents)) :
            <<OutputDir>> \o DerivedPath(PagesOf(meta.contents)[i].source)
              \in Range(pdfArgs)
  /\ \A k \in DOMAIN templates :
       templates[k].params # NoFiles =>
         templates[k].params.homelink = DerivedPath(HomePage.source)
  /\ ("redirect" \in DOMAIN templates /\ templates["redirect"].link # <<>>) =>
       templates["redirect"].link
         = <<RedirectParent, "/">> \o DerivedPath(HomePage.source)
  /\ RedirectFile \in DOMAIN disk =>
       disk[RedirectFile].link = <<RedirectParent, "/">> \o DerivedPath(HomePage.source)

C21_Witness ==
  /\ child = "closed"
  /\ pc = "done"
  /\ HomePage.source = DottedMd
  /\ RedirectFile \in DOMAIN disk
  /\ disk[RedirectFile].link = <<"out", "/", "v1", ".", "0", ".", "html">>
  /\ <<OutputDir, ".", "html">> \in Range(pdfArgs)
  /\ <<OutputDir, ".", "html">> \in DOMAIN disk

\* C22: reading starts, and every later stage runs, only after the output
\* directory was removed and made again without error; and a run that ended
\* with status 0 leaves no file in the output directory that was there before
\* the run.
C22_OutputDirOwnedByTheRun ==
  /\ (reads # <<>> \/ writes # <<>>) => "remake" \notin failedOps
  /\ (pc = "done" /\ exitCode = 0) => StaleFile \notin DOMAIN disk

\* the source identifiers of the contents list, release notes included
SourceIds == {pg.source : pg \in Range(PagesOf(meta.contents))}

\* C23: once loadMarkdown's handler has run, pages holds an entry for every
\* source identifier of the contents list and for nothing else; no two source
\* reads were for the same file; and once the writes are issued every entry of
\* pages is a tree composed from the text read for its own source.
C23_OneEntryForEachSource ==
  /\ (Processed /\ pages # NoFiles) =>
       /\ DOMAIN pages = SourceIds
       /\ \A i, j \in 1..Len(reads) : reads[i].path = reads[j].path => i = j
  /\ writes # <<>> =>
       \A k \in DOMAIN pages :
         /\ pages[k].kind = "dom"
         /\ pages[k].content.kind = "html"
         /\ pages[k].content.text.path = <<InputDir>> \o k

\* C24: once the writes are issued the main template holds the table of
\* contents and the parameter values; every page tree and the ownership page
\* holds that same table of contents, PDF button and parameter values; and
\* every text handed to writeFile, the three PDF templates' included, holds
\* those parameter values.
C24_InjectedOnceBeforeCloning ==
  writes # <<>> =>
    /\ Hrefs(templates["main"].toc) = ColumnMajor(meta.contents)
    /\ templates["main"].params # NoFiles
    /\ templates["main"].params.title = meta.parameters.title
    /\ \A tree \in PageTrees :
         /\ tree.toc = templates["main"].toc
         /\ tree.pdfButton = templates["main"].pdfButton
         /\ tree.params = templates["main"].params
    /\ \A i \in 1..Len(writes) : writes[i].content.params = templates["main"].params

C24_Witness ==
  /\ pc = "done"
  /\ Len(writes) = 7
  /\ Len(templates["main"].toc) = 2
  /\ IntroMd.source \in DOMAIN pages
  /\ pages[IntroMd.source].params.title = "Widget Guide"
  /\ pages[IntroMd.source].toc = templates["main"].toc
  /\ \E i \in 1..Len(writes) :
       /\ writes[i].key = <<"docgenPdfCover">>
       /\ writes[i].state = "done"
       /\ writes[i].content.params.title = "Widget Guide"

\* what the heads of the templates and of the page trees hold
Injected ==
  UNION ({Range(templates[k].head) : k \in DOMAIN templates}
           \cup {Range(pages[k].head) : k \in {k \in DOMAIN pages : pages[k].kind = "dom"}})

\* C25: whatever the two math options are, the heads of the templates and
\* pages of a run never hold the references of both engines.
C25_MathEnginesExclusive ==
  ~(Range(KatexHead) \cap Injected # {} /\ Range(MathjaxHead) \cap Injected # {})

\* C26: no two of the writes writePages issues are for the same path.
C26_NoTwoWritesToOnePath ==
  \A i, j \in 1..Len(writes) : writes[i].path = writes[j].path => i = j

\* the three temp files are among the writes issued
TempWritesIssued ==
  {<<"docgenPdfCover">>, <<"docgenPdfHeader">>, <<"docgenPdfFooter">>}
    \subseteq {writes[i].key : i \in 1..Len(writes)}

\* C27: whatever the value of options.pdf, the version command is started
\* only in a run whose table of contents has the PDF button and whose temp
\* files were issued; and a run that reached Done! has the button in its
\* table of contents exactly if it issued the temp files, ran the version
\* command and spawned the renderer.
C27_PdfButtonIffPdfRuns ==
  /\ exec # "none" => templates["main"].pdfButton /\ TempWritesIssued
  /\ pc = "done" =>
       (templates["main"].pdfButton
          <=> (TempWritesIssued /\ exec # "none" /\ child # "none"))

====
